---- MODULE Spec2Model ----
(***************************************************************************)
(* Model of composable-utils (src/lib.rs): the ResultOptionExt collapse    *)
(* operations on Option<Result<T, E>> and Result<Option<T>, E>, and the    *)
(* AsyncOptionExt::async_map future on Option<T>.                          *)
(*                                                                         *)
(* One behaviour is one call.  A collapse operation is synchronous and is  *)
(* one atomic action.  async_map is a future: the call creates it, the     *)
(* executor polls it, the inner computation progresses on its own, and the *)
(* owner may drop it (cancellation).                                       *)
(***************************************************************************)
EXTENDS Integers, Sequences, FiniteSets, TLC

\* ---------------------------------------------------------------- bounds
MaxVal == 2         \* contained values T (and U) are 0 .. MaxVal
MaxErr == 2         \* error values E and E2 are 0 .. MaxErr
MaxLatency == 2     \* wake-ups an inner computation needs before its output
MaxPolls == 2       \* polls that find the inner computation still pending

Vals == 0 .. MaxVal
ErrVals == 0 .. MaxErr

\* ------------------------------------------------- std containers (enums)
None == [tag |-> "None"]
Some(x) == [tag |-> "Some", val |-> x]
Ok(x) == [tag |-> "Ok", val |-> x]
Err(e) == [tag |-> "Err", val |-> e]

\* Option<Result<T, E>>: Some(Ok(t)), Some(Err(e)), None
OptionResultStates == {None} \cup {Some(Ok(t)) : t \in Vals} \cup {Some(Err(e)) : e \in ErrVals}
\* Result<Option<T>, E>: Ok(Some(t)), Ok(None), Err(e)
ResultOptionStates == {Ok(None)} \cup {Ok(Some(t)) : t \in Vals} \cup {Err(e) : e \in ErrVals}
\* Option<T>
OptionStates == {None} \cup {Some(t) : t \in Vals}

\* ----------------------------------------------- caller-supplied closures
\* F: FnOnce() -> E2.  It either returns ret or panics.
Factories == [panics : BOOLEAN, ret : ErrVals]
\* F: FnOnce(E) -> E2.  It either returns fn[e] or panics.
Mappers == [panics : BOOLEAN, fn : [ErrVals -> ErrVals]]
\* Placeholders for the arguments an operation does not take.
NoErr == -1
NoFactory == [panics |-> FALSE, ret |-> NoErr]
NoMapper == [panics |-> FALSE, fn |-> [e \in ErrVals |-> NoErr]]
NoResult == [tag |-> "NoResult"]
\* The payload of the panic a closure raises, and no panic.
FactoryPanic == "factory panicked"
MapperPanic == "mapper panicked"
NoPanic == "none"

\* ------------------------------------------------ effects of one call
\* What a call did: how it ended, the value it returned or the panic that
\* unwound it, and how often it invoked each closure (margs: the arguments
\* the mapper was invoked with).
Returned(r) ==
    [outcome |-> "returned", result |-> r, failure |-> NoPanic,
     fcalls |-> 0, mcalls |-> 0, margs |-> <<>>]

\* The expression Err(f()) for a factory closure.
ErrOfFactory(f) ==
    IF f.panics
    THEN [outcome |-> "panicked", result |-> NoResult, failure |-> FactoryPanic,
          fcalls |-> 1, mcalls |-> 0, margs |-> <<>>]
    ELSE [outcome |-> "returned", result |-> Err(f.ret), failure |-> NoPanic,
          fcalls |-> 1, mcalls |-> 0, margs |-> <<>>]

\* variant: the panic of the mapper is caught and the original error kept
ErrOfMapper_Swallow(f, e) ==
    [outcome |-> "returned", result |-> Err(IF f.panics THEN e ELSE f.fn[e]),
     failure |-> NoPanic, fcalls |-> 0, mcalls |-> 1, margs |-> <<e>>]

\* The expression Err(f(e)) for a mapper closure.
ErrOfMapper(f, e) ==
    IF f.panics
    THEN [outcome |-> "panicked", result |-> NoResult, failure |-> MapperPanic,
          fcalls |-> 0, mcalls |-> 1, margs |-> <<e>>]
    ELSE [outcome |-> "returned", result |-> Err(f.fn[e]), failure |-> NoPanic,
          fcalls |-> 0, mcalls |-> 1, margs |-> <<e>>]

\* ---------------------- impl ResultOptionExt for Option<Result<T, E>>
\* variant: Some(Err(e)) => Err(e)
OptionResult_unwrap_or_err_PassThrough(s, err) ==
    IF s.tag = "Some"
    THEN IF s.val.tag = "Ok" THEN Returned(Ok(s.val.val)) ELSE Returned(Err(s.val.val))
    ELSE Returned(Err(err))

OptionResult_unwrap_or_err(s, err) ==
    IF s.tag = "Some"
    THEN IF s.val.tag = "Ok" THEN Returned(Ok(s.val.val)) ELSE Returned(Err(err))
    ELSE Returned(Err(err))

\* variant: f() evaluated before the match
OptionResult_unwrap_or_else_err_Eager(s, f) ==
    IF s.tag = "Some" /\ s.val.tag = "Ok"
    THEN [ErrOfFactory(f) EXCEPT !.result = IF f.panics THEN NoResult ELSE Ok(s.val.val)]
    ELSE ErrOfFactory(f)

OptionResult_unwrap_or_else_err(s, f) ==
    IF s.tag = "Some"
    THEN IF s.val.tag = "Ok" THEN Returned(Ok(s.val.val)) ELSE ErrOfFactory(f)
    ELSE ErrOfFactory(f)

OptionResult_unwrap_or_map_err(s, default, f) ==
    IF s.tag = "Some"
    THEN IF s.val.tag = "Ok" THEN Returned(Ok(s.val.val)) ELSE ErrOfMapper(f, s.val.val)
    ELSE Returned(Err(default))

\* variant: the mapper is also invoked on Some(Ok(t))
OptionResult_unwrap_or_else_map_err_Speculative(s, default, f) ==
    IF s.tag = "Some"
    THEN IF s.val.tag = "Ok"
         THEN [ErrOfMapper(f, 0) EXCEPT !.result = IF f.panics THEN NoResult ELSE Ok(s.val.val)]
         ELSE ErrOfMapper(f, s.val.val)
    ELSE ErrOfFactory(default)

OptionResult_unwrap_or_else_map_err(s, default, f) ==
    IF s.tag = "Some"
    THEN IF s.val.tag = "Ok" THEN Returned(Ok(s.val.val)) ELSE ErrOfMapper(f, s.val.val)
    ELSE ErrOfFactory(default)

\* ---------------------- impl ResultOptionExt for Result<Option<T>, E>
\* variant: Err(e) => Err(e)
ResultOption_unwrap_or_err_PassThrough(s, err) ==
    IF s.tag = "Ok"
    THEN IF s.val.tag = "Some" THEN Returned(Ok(s.val.val)) ELSE Returned(Err(err))
    ELSE Returned(Err(s.val))

ResultOption_unwrap_or_err(s, err) ==
    IF s.tag = "Ok"
    THEN IF s.val.tag = "Some" THEN Returned(Ok(s.val.val)) ELSE Returned(Err(err))
    ELSE Returned(Err(err))

\* variant: Err(e) => Err(e), f not invoked
ResultOption_unwrap_or_else_err_KeepErr(s, f) ==
    IF s.tag = "Ok"
    THEN IF s.val.tag = "Some" THEN Returned(Ok(s.val.val)) ELSE ErrOfFactory(f)
    ELSE Returned(Err(s.val))

ResultOption_unwrap_or_else_err(s, f) ==
    IF s.tag = "Ok"
    THEN IF s.val.tag = "Some" THEN Returned(Ok(s.val.val)) ELSE ErrOfFactory(f)
    ELSE ErrOfFactory(f)

\* variant: Err(_) => Err(default), f not invoked
ResultOption_unwrap_or_map_err_Discard(s, default, f) ==
    IF s.tag = "Ok"
    THEN IF s.val.tag = "Some" THEN Returned(Ok(s.val.val)) ELSE Returned(Err(default))
    ELSE Returned(Err(default))

ResultOption_unwrap_or_map_err(s, default, f) ==
    IF s.tag = "Ok"
    THEN IF s.val.tag = "Some" THEN Returned(Ok(s.val.val)) ELSE Returned(Err(default))
    ELSE ErrOfMapper(f, s.val)

\* variant: Err(_) => Err(default()), f not invoked
ResultOption_unwrap_or_else_map_err_Default(s, default, f) ==
    IF s.tag = "Ok"
    THEN IF s.val.tag = "Some" THEN Returned(Ok(s.val.val)) ELSE ErrOfFactory(default)
    ELSE ErrOfFactory(default)

ResultOption_unwrap_or_else_map_err(s, default, f) ==
    IF s.tag = "Ok"
    THEN IF s.val.tag = "Some" THEN Returned(Ok(s.val.val)) ELSE ErrOfFactory(default)
    ELSE ErrOfMapper(f, s.val)

\* ------------------------------------------ impl AsyncOptionExt for Option<T>
\* A transformation F: FnOnce(T) -> Fut.  Invoking it on t yields a future
\* whose output is fn[t] once the computation has been woken `latency` times;
\* latency Never is a computation that never completes.
Never == -1
Latencies == (0 .. MaxLatency) \cup {Never}
double == [v \in Vals |-> v * 2]
TransformFns == {double, [v \in Vals |-> v + 1], [v \in Vals |-> v], [v \in Vals |-> 0]}
Transforms == [fn : TransformFns, latency : Latencies]
NoTransform == [fn |-> [v \in Vals |-> 0], latency |-> 0]
NoFut == [tag |-> "NoFut"]
\* variant: the future yields t itself
InvokeTransform_Identity(f, t) == [tag |-> "Fut", out |-> t, remaining |-> f.latency]
\* f(t): the inner future
InvokeTransform(f, t) == [tag |-> "Fut", out |-> f.fn[t], remaining |-> f.latency]
\* Future::poll of the inner future returns Ready(out)
Ready(fu) == fu.remaining = 0

\* ------------------------------------------------------------------ state
VARIABLES
    pc,             \* "idle", "created", "suspended", "returned", "panicked", "dropped"
    op,             \* the operation called
    shape,          \* "OptionResult", "ResultOption" or "Option": the type of self
    self,           \* the receiver, consumed by the call
    errArg,         \* the eager error: err of unwrap_or_err, default of unwrap_or_map_err
    factory,        \* the FnOnce() -> E2: f of unwrap_or_else_err, default of unwrap_or_else_map_err
    mapper,         \* the FnOnce(E) -> E2: f of the two _map_err operations
    transform,      \* the FnOnce(T) -> Fut: f of async_map
    result,         \* the value the call produced, NoResult while there is none
    failure,        \* the payload of the panic that unwound the call, NoPanic if none
    factoryCalls,   \* invocations of factory
    mapperCalls,    \* invocations of mapper
    mapperArgs,     \* the arguments mapper was invoked with
    transformCalls, \* invocations of transform
    fut,            \* the inner future f(t), NoFut before f is invoked
    awaits,         \* times control reached the .await of async_map
    pendings        \* polls of async_map that returned Poll::Pending

vars == <<pc, op, shape, self, errArg, factory, mapper, transform, result, failure,
          factoryCalls, mapperCalls, mapperArgs, transformCalls, fut, awaits, pendings>>

asyncVars == <<transform, transformCalls, fut, awaits, pendings>>
collapseVars == <<errArg, factory, mapper, factoryCalls, mapperCalls, mapperArgs>>

\* The library keeps no state: before a call there is nothing.
Init ==
    /\ pc = "idle"
    /\ op = "none"
    /\ shape = "none"
    /\ self = None
    /\ errArg = NoErr
    /\ factory = NoFactory
    /\ mapper = NoMapper
    /\ transform = NoTransform
    /\ result = NoResult
    /\ failure = NoPanic
    /\ factoryCalls = 0
    /\ mapperCalls = 0
    /\ mapperArgs = <<>>
    /\ transformCalls = 0
    /\ fut = NoFut
    /\ awaits = 0
    /\ pendings = 0

\* A synchronous call of a collapse operation with effects eff.
Collapse(o, sh, s, e, fa, ma, eff) ==
    /\ pc' = eff.outcome
    /\ op' = o
    /\ shape' = sh
    /\ self' = s
    /\ errArg' = e
    /\ factory' = fa
    /\ mapper' = ma
    /\ result' = eff.result
    /\ failure' = eff.failure
    /\ factoryCalls' = eff.fcalls
    /\ mapperCalls' = eff.mcalls
    /\ mapperArgs' = eff.margs
    /\ UNCHANGED asyncVars

CallOptionResult_unwrap_or_err ==
    /\ pc = "idle"
    /\ \E s \in OptionResultStates, err \in ErrVals :
        Collapse("unwrap_or_err", "OptionResult", s, err, NoFactory, NoMapper,
                 OptionResult_unwrap_or_err(s, err))

CallOptionResult_unwrap_or_else_err ==
    /\ pc = "idle"
    /\ \E s \in OptionResultStates, f \in Factories :
        Collapse("unwrap_or_else_err", "OptionResult", s, NoErr, f, NoMapper,
                 OptionResult_unwrap_or_else_err(s, f))

CallOptionResult_unwrap_or_map_err ==
    /\ pc = "idle"
    /\ \E s \in OptionResultStates, default \in ErrVals, f \in Mappers :
        Collapse("unwrap_or_map_err", "OptionResult", s, default, NoFactory, f,
                 OptionResult_unwrap_or_map_err(s, default, f))

CallOptionResult_unwrap_or_else_map_err ==
    /\ pc = "idle"
    /\ \E s \in OptionResultStates, default \in Factories, f \in Mappers :
        Collapse("unwrap_or_else_map_err", "OptionResult", s, NoErr, default, f,
                 OptionResult_unwrap_or_else_map_err(s, default, f))

CallResultOption_unwrap_or_err ==
    /\ pc = "idle"
    /\ \E s \in ResultOptionStates, err \in ErrVals :
        Collapse("unwrap_or_err", "ResultOption", s, err, NoFactory, NoMapper,
                 ResultOption_unwrap_or_err(s, err))

CallResultOption_unwrap_or_else_err ==
    /\ pc = "idle"
    /\ \E s \in ResultOptionStates, f \in Factories :
        Collapse("unwrap_or_else_err", "ResultOption", s, NoErr, f, NoMapper,
                 ResultOption_unwrap_or_else_err(s, f))

CallResultOption_unwrap_or_map_err ==
    /\ pc = "idle"
    /\ \E s \in ResultOptionStates, default \in ErrVals, f \in Mappers :
        Collapse("unwrap_or_map_err", "ResultOption", s, default, NoFactory, f,
                 ResultOption_unwrap_or_map_err(s, default, f))

CallResultOption_unwrap_or_else_map_err ==
    /\ pc = "idle"
    /\ \E s \in ResultOptionStates, default \in Factories, f \in Mappers :
        Collapse("unwrap_or_else_map_err", "ResultOption", s, NoErr, default, f,
                 ResultOption_unwrap_or_else_map_err(s, default, f))

\* Calling the async fn only builds its future: the body has not run yet.
CallAsyncMap ==
    /\ pc = "idle"
    /\ \E s \in OptionStates, f \in Transforms :
        /\ self' = s
        /\ transform' = f
    /\ pc' = "created"
    /\ op' = "async_map"
    /\ shape' = "Option"
    /\ UNCHANGED <<result, failure, transformCalls, fut, awaits, pendings>>
    /\ UNCHANGED collapseVars

\* variant: the arm completes without waiting for the inner future
AwaitSkipsInner(fu) ==
    /\ pc' = "returned"
    /\ result' = Some(fu.out)
    /\ UNCHANGED pendings

\* The state of the async_map future after the await polled inner future fu:
\* Ready(u) completes the match arm with Some(u), Pending suspends.
Await(fu) ==
    IF Ready(fu)
    THEN /\ pc' = "returned"
         /\ result' = Some(fu.out)
         /\ UNCHANGED pendings
    ELSE /\ pendings < MaxPolls
         /\ pc' = "suspended"
         /\ result' = NoResult
         /\ pendings' = pendings + 1

\* First poll with self = None: the None arm, no closure call, no await.
PollNone ==
    /\ pc = "created"
    /\ self.tag = "None"
    /\ pc' = "returned"
    /\ result' = None
    /\ UNCHANGED <<transformCalls, fut, awaits, pendings>>

\* First poll with self = Some(t): f(t) is invoked, then awaited.
PollSome ==
    /\ pc = "created"
    /\ self.tag = "Some"
    /\ transformCalls' = transformCalls + 1
    /\ fut' = InvokeTransform(transform, self.val)
    /\ awaits' = awaits + 1
    /\ Await(fut')

\* A later poll resumes at the await.
PollResume ==
    /\ pc = "suspended"
    /\ Await(fut)
    /\ UNCHANGED <<transformCalls, fut, awaits>>

\* Future::poll of the async_map future, by the executor.
Poll ==
    /\ \/ PollNone
       \/ PollSome
       \/ PollResume
    /\ UNCHANGED <<op, shape, self, transform, failure>>
    /\ UNCHANGED collapseVars

\* The inner computation advances by itself (I/O, timer, another task).
InnerProgress ==
    /\ pc = "suspended"
    /\ fut.remaining > 0
    /\ fut' = [fut EXCEPT !.remaining = @ - 1]
    /\ UNCHANGED <<pc, op, shape, self, transform, result, failure, transformCalls, awaits, pendings>>
    /\ UNCHANGED collapseVars

\* External cancellation: the owner drops the future before it completed.
Drop ==
    /\ pc \in {"created", "suspended"}
    /\ pc' = "dropped"
    /\ UNCHANGED <<op, shape, self, result, failure>>
    /\ UNCHANGED asyncVars
    /\ UNCHANGED collapseVars

Next ==
    \/ CallOptionResult_unwrap_or_err
    \/ CallOptionResult_unwrap_or_else_err
    \/ CallOptionResult_unwrap_or_map_err
    \/ CallOptionResult_unwrap_or_else_map_err
    \/ CallResultOption_unwrap_or_err
    \/ CallResultOption_unwrap_or_else_err
    \/ CallResultOption_unwrap_or_map_err
    \/ CallResultOption_unwrap_or_else_map_err
    \/ CallAsyncMap
    \/ Poll
    \/ InnerProgress
    \/ Drop

Spec == Init /\ [][Next]_vars

\* block_on keeps polling the future it owns, and a computation that can
\* complete keeps advancing; cancellation is never forced.
FairSpec == Spec /\ WF_vars(Poll) /\ WF_vars(InnerProgress)

\* ------------------------------------------------- the three input states
IsCollapse == shape \in {"OptionResult", "ResultOption"}
Finished == pc \in {"returned", "panicked"}

\* Some(Ok(t)) / Ok(Some(t))
SuccessWithValue ==
    \/ shape = "OptionResult" /\ self.tag = "Some" /\ self.val.tag = "Ok"
    \/ shape = "ResultOption" /\ self.tag = "Ok" /\ self.val.tag = "Some"
\* None / Ok(None)
NoValue ==
    \/ shape = "OptionResult" /\ self.tag = "None"
    \/ shape = "ResultOption" /\ self.tag = "Ok" /\ self.val.tag = "None"
\* Some(Err(e)) / Err(e)
ExistingFailure ==
    \/ shape = "OptionResult" /\ self.tag = "Some" /\ self.val.tag = "Err"
    \/ shape = "ResultOption" /\ self.tag = "Err"
\* t of the success-with-value state
ContainedValue == self.val.val
\* e of the existing-failure state
OriginalError == IF shape = "OptionResult" THEN self.val.val ELSE self.val

\* C1: unwrap_or_err(err) on both shapes: Some(Ok(t)) / Ok(Some(t)) yields
\* Ok(t); None / Ok(None) yields Err(err); Some(Err(e)) / Err(e) yields
\* Err(err) whatever e is: the original error is discarded.
C1_UnwrapOrErr ==
    (IsCollapse /\ op = "unwrap_or_err" /\ Finished) =>
        /\ pc = "returned"
        /\ SuccessWithValue => result = Ok(ContainedValue)
        /\ NoValue => result = Err(errArg)
        /\ ExistingFailure => result = Err(errArg)

C1_Witness ==
    /\ op = "unwrap_or_err"
    /\ shape = "OptionResult"
    /\ ExistingFailure
    /\ OriginalError /= errArg
    /\ result = Err(errArg)

\* C2: unwrap_or_else_err(f) on both shapes: the success-with-value state
\* yields Ok(t); the no-value state and the existing-failure state yield
\* Err(f()), the original error discarded, and f is invoked exactly once in
\* each of these two states.
C2_UnwrapOrElseErr ==
    (IsCollapse /\ op = "unwrap_or_else_err" /\ Finished) =>
        /\ SuccessWithValue => pc = "returned" /\ result = Ok(ContainedValue)
        /\ (NoValue \/ ExistingFailure) =>
            /\ factoryCalls = 1
            /\ ~factory.panics => pc = "returned" /\ result = Err(factory.ret)

C2_Witness ==
    /\ op = "unwrap_or_else_err"
    /\ shape = "ResultOption"
    /\ ExistingFailure
    /\ OriginalError /= factory.ret
    /\ factoryCalls = 1
    /\ result = Err(factory.ret)

\* C3: unwrap_or_map_err(default, f) on both shapes: the success-with-value
\* state yields Ok(t); the no-value state yields Err(default) without
\* invoking f; the existing-failure state yields Err(f(e)), f applied exactly
\* once, to the original error e, and default not used.
C3_UnwrapOrMapErr ==
    (IsCollapse /\ op = "unwrap_or_map_err" /\ Finished) =>
        /\ SuccessWithValue => pc = "returned" /\ result = Ok(ContainedValue)
        /\ NoValue => pc = "returned" /\ result = Err(errArg) /\ mapperCalls = 0
        /\ ExistingFailure =>
            /\ mapperCalls = 1
            /\ mapperArgs = <<OriginalError>>
            /\ ~mapper.panics => pc = "returned" /\ result = Err(mapper.fn[OriginalError])

C3_Witness ==
    /\ op = "unwrap_or_map_err"
    /\ shape = "ResultOption"
    /\ ExistingFailure
    /\ mapperCalls = 1
    /\ mapper.fn[OriginalError] /= errArg
    /\ mapper.fn[OriginalError] /= OriginalError
    /\ result = Err(mapper.fn[OriginalError])

\* C4: unwrap_or_else_map_err(default, f) on both shapes: the
\* success-with-value state yields Ok(t); the no-value state yields
\* Err(default()), the factory invoked exactly once and f not at all; the
\* existing-failure state yields Err(f(e)), f invoked exactly once on e and
\* the factory not at all.  No call invokes both closures.
C4_UnwrapOrElseMapErr ==
    (IsCollapse /\ op = "unwrap_or_else_map_err" /\ Finished) =>
        /\ SuccessWithValue => pc = "returned" /\ result = Ok(ContainedValue)
        /\ NoValue =>
            /\ factoryCalls = 1
            /\ mapperCalls = 0
            /\ ~factory.panics => pc = "returned" /\ result = Err(factory.ret)
        /\ ExistingFailure =>
            /\ mapperCalls = 1
            /\ mapperArgs = <<OriginalError>>
            /\ factoryCalls = 0
            /\ ~mapper.panics => pc = "returned" /\ result = Err(mapper.fn[OriginalError])
        /\ ~(factoryCalls > 0 /\ mapperCalls > 0)

C4_Witness ==
    /\ op = "unwrap_or_else_map_err"
    /\ shape = "ResultOption"
    /\ ExistingFailure
    /\ mapperCalls = 1
    /\ factoryCalls = 0
    /\ mapper.fn[OriginalError] /= factory.ret
    /\ result = Err(mapper.fn[OriginalError])

\* C5: success pass-through: each of the four collapse operations applied to
\* Ok(Some(t)) or Some(Ok(t)) returns Ok(t), t unchanged, and invokes no
\* closure: neither the default-error factory nor the mapping function.
C5_SuccessPassThrough ==
    (IsCollapse /\ Finished /\ SuccessWithValue) =>
        /\ pc = "returned"
        /\ result = Ok(ContainedValue)
        /\ factoryCalls = 0
        /\ mapperCalls = 0
        /\ mapperArgs = <<>>

C5_Witness ==
    /\ op = "unwrap_or_else_map_err"
    /\ shape = "OptionResult"
    /\ SuccessWithValue
    /\ factory.panics
    /\ mapper.panics
    /\ result = Ok(ContainedValue)
    /\ ContainedValue = MaxVal

ElseOp == op \in {"unwrap_or_else_err", "unwrap_or_else_map_err"}

\* C6 as stated: in both _else_ operations the factory is invoked zero times
\* on a success-with-value and exactly once for every other input state.
C6_Original ==
    (IsCollapse /\ ElseOp /\ Finished) =>
        /\ SuccessWithValue => factoryCalls = 0
        /\ ~SuccessWithValue => factoryCalls = 1

\* C6 (amended): in both _else_ operations, on both shapes, the factory is
\* invoked zero times on a success-with-value and exactly once in the
\* no-value state; in the existing-failure state it is invoked exactly once
\* by unwrap_or_else_err and zero times by unwrap_or_else_map_err, which
\* invokes the mapper there instead.
C6_Laziness ==
    (IsCollapse /\ ElseOp /\ Finished) =>
        /\ SuccessWithValue => factoryCalls = 0
        /\ NoValue => factoryCalls = 1
        /\ (ExistingFailure /\ op = "unwrap_or_else_err") => factoryCalls = 1
        /\ (ExistingFailure /\ op = "unwrap_or_else_map_err") =>
                factoryCalls = 0 /\ mapperCalls = 1

C6_Witness ==
    /\ op = "unwrap_or_else_map_err"
    /\ ExistingFailure
    /\ Finished
    /\ factoryCalls = 0
    /\ mapperCalls = 1

NonMappingOp == op \in {"unwrap_or_err", "unwrap_or_else_err"}
\* the error the caller supplied to a non-mapping operation
SuppliedError == IF op = "unwrap_or_err" THEN errArg ELSE factory.ret

\* C7 as stated: unwrap_or_err and unwrap_or_else_err pass an existing
\* failure through unchanged: the resulting Err carries the original error.
C7_Original ==
    (IsCollapse /\ NonMappingOp /\ ExistingFailure /\ pc = "returned") =>
        result = Err(OriginalError)

\* C7 (amended): unwrap_or_err and unwrap_or_else_err applied to an existing
\* failure do not pass it through: the resulting Err carries the error the
\* caller supplied (err, or the output of f), whatever the original error.
C7_NonMappingReplaces ==
    (IsCollapse /\ NonMappingOp /\ ExistingFailure /\ pc = "returned") =>
        /\ result = Err(SuppliedError)
        /\ mapperCalls = 0
        /\ OriginalError /= SuppliedError => result /= Err(OriginalError)

C7_Witness ==
    /\ op = "unwrap_or_err"
    /\ shape = "ResultOption"
    /\ ExistingFailure
    /\ pc = "returned"
    /\ OriginalError = 0
    /\ errArg = MaxErr
    /\ result = Err(MaxErr)

\* C8: async_map(f): None maps to None and f is not invoked; Some(v) maps to
\* Some(u), u the output of f(v), f invoked exactly once on v (doubling
\* gives Some(2 * v)).  A Some input never gives None, a None input never
\* gives Some.
C8_AsyncMap ==
    op = "async_map" =>
        /\ transformCalls <= 1
        /\ self.tag = "None" =>
            /\ transformCalls = 0
            /\ result \in {NoResult, None}
            /\ pc = "returned" => result = None
        /\ self.tag = "Some" =>
            /\ result /= None
            /\ pc = "returned" =>
                /\ transformCalls = 1
                /\ result = Some(transform.fn[self.val])
                /\ fut.out = transform.fn[self.val]
                /\ transform.fn = double => result = Some(2 * self.val)

C8_Witness ==
    /\ op = "async_map"
    /\ pc = "returned"
    /\ self = Some(MaxVal)
    /\ MaxVal > 0
    /\ transform.fn = double
    /\ transformCalls = 1
    /\ result = Some(2 * MaxVal)

\* the inner computation of this call is one that completes
InnerCompletes == op = "async_map" /\ self.tag = "Some" /\ transform.latency /= Never

C9_Order ==
    op = "async_map" =>
        /\ awaits <= 1
        /\ self.tag = "None" =>
            awaits = 0 /\ pendings = 0 /\ pc /= "suspended" /\ fut = NoFut
        /\ (self.tag = "Some" /\ pc = "returned") => awaits = 1
        /\ awaits = 1 => transformCalls = 1 /\ fut.tag = "Fut"
        /\ pendings > 0 => awaits = 1
        /\ pc = "suspended" => awaits = 1 /\ result = NoResult
        /\ (self.tag = "Some" /\ result /= NoResult) =>
            pc = "returned" /\ fut.tag = "Fut" /\ Ready(fut)
        /\ (self.tag = "Some" /\ transform.latency = Never) => result = NoResult
        /\ pc = "dropped" => result = NoResult

\* while the inner computation is pending, and after a drop, the library
\* invokes nothing and produces nothing
C9_NoOtherAction ==
    (op = "async_map" /\ (pc = "dropped" \/ (pc = "suspended" /\ ~Ready(fut)))) =>
        /\ transformCalls' = transformCalls
        /\ awaits' = awaits
        /\ result' = NoResult
        /\ self' = self
        /\ pc = "dropped" => pc' = "dropped"

\* C9: async_map on None returns without reaching a suspension point; on
\* Some(t) the single await is reached once, after f(t) was invoked and
\* before the result exists, so Some(u) is returned only once the inner
\* computation has completed, and it is eventually returned when that
\* computation completes and the future is not dropped.  While the inner
\* computation has not completed, or after cancellation, there is no result
\* and the library does nothing else.
C9_Suspension ==
    /\ []C9_Order
    /\ [][C9_NoOtherAction]_vars
    /\ InnerCompletes ~> (pc \in {"returned", "dropped"})

C9_Witness ==
    /\ op = "async_map"
    /\ pc = "returned"
    /\ self.tag = "Some"
    /\ transform.latency = MaxLatency
    /\ pendings >= 1
    /\ awaits = 1
    /\ result = Some(fut.out)

\* the closure on the branch the input state selects
FactoryBranch == NoValue \/ (ExistingFailure /\ op = "unwrap_or_else_err")
MapperBranch == ExistingFailure /\ op \in {"unwrap_or_map_err", "unwrap_or_else_map_err"}
InvokedClosureFails ==
    \/ factoryCalls > 0 /\ factory.panics
    \/ mapperCalls > 0 /\ mapper.panics

\* C10: for the four collapse operations on both shapes, the call fails
\* exactly when a closure it invoked fails, with the failure of that closure,
\* and then returns no value; a failing closure whose branch is not taken is
\* not invoked and does not affect the result.
C10_ClosureFailure ==
    (IsCollapse /\ Finished) =>
        /\ pc = "panicked" <=> InvokedClosureFails
        /\ pc = "panicked" <=> \/ FactoryBranch /\ factory.panics
                               \/ MapperBranch /\ mapper.panics
        /\ pc = "panicked" =>
            /\ result = NoResult
            /\ failure = IF FactoryBranch THEN FactoryPanic ELSE MapperPanic
        /\ pc = "returned" => result.tag \in {"Ok", "Err"} /\ failure = NoPanic
        /\ ~FactoryBranch => factoryCalls = 0
        /\ ~MapperBranch => mapperCalls = 0

C10_Witness ==
    /\ op = "unwrap_or_else_map_err"
    /\ shape = "ResultOption"
    /\ ExistingFailure
    /\ mapper.panics
    /\ ~factory.panics
    /\ pc = "panicked"
    /\ failure = MapperPanic
    /\ result = NoResult

====
